---- MODULE Spec2Model ----
(***************************************************************************)
(* Model of the HN Summarizer run (src/src/main.py) with its collaborators: *)
(* HNFetcher, ContentExtractor, the LLM providers and Summarizer, and       *)
(* DeliveryService.  Texts are sequences of one-character strings so that   *)
(* strip(), whitespace collapsing and urlparse().netloc are computed.       *)
(* The time.time() stamps (fetched_at, extracted_at, summarized_at) and the *)
(* log lines carry no control flow and are left out of the records, except  *)
(* where evaluating a log line's f-string can raise.                        *)
(***************************************************************************)
EXTENDS Integers, Sequences, FiniteSets, TLC

\* ---------------------------------------------------------------- bounds
MaxFeed == 3
MaxLimit == 2
MaxRecords == 7
MaxCap == 3
MaxLineRecords == 2
MaxElems == 2

\* ---------------------------------------------------------------- texts
Chars == {" ", "x"}

IsSpace(c) == c = " "

\* str.lstrip(): drop leading whitespace
RECURSIVE LStrip(_)
LStrip(t) ==
    IF t = <<>> THEN <<>>
    ELSE IF IsSpace(Head(t)) THEN LStrip(Tail(t))
    ELSE t

\* str.rstrip(): drop trailing whitespace
RECURSIVE RStrip(_)
RStrip(t) ==
    IF t = <<>> THEN <<>>
    ELSE IF IsSpace(t[Len(t)]) THEN RStrip(SubSeq(t, 1, Len(t) - 1))
    ELSE t

\* str.strip()
Strip(t) == RStrip(LStrip(t))

\* re.sub(r'\s+', ' ', text): every run of whitespace becomes one space
RECURSIVE CollapseWs(_)
CollapseWs(t) ==
    IF t = <<>> THEN <<>>
    ELSE IF IsSpace(Head(t))
         THEN <<" ">> \o CollapseWs(LStrip(t))
         ELSE <<Head(t)>> \o CollapseWs(Tail(t))

\* dict.get(key, default)
Get(d, k, default) == IF k \in DOMAIN d THEN d[k] ELSE default

Min(a, b) == IF a < b THEN a ELSE b

\* the concatenation of a sequence of sequences
RECURSIVE Flatten(_)
Flatten(ss) == IF ss = <<>> THEN <<>> ELSE Head(ss) \o Flatten(Tail(ss))

\* d[k]: KeyError when the key is absent
Lookup_Subscript(d, k, default) ==
    IF k \in DOMAIN d THEN [raised |-> FALSE, value |-> d[k]]
    ELSE [raised |-> TRUE, value |-> default]

\* d.get(k, default), with whether the lookup raised
Lookup(d, k, default) == [raised |-> FALSE, value |-> Get(d, k, default)]

\* Python's None, as a text no page or backend produces
NoneVal == <<"<None>">>

\* the fixed text main.py stores for an item it could not summarize
Placeholder == <<"<placeholder>">>

NoTitleFound == <<"No title found">>

\* ------------------------------------------------------------ urlparse
SchemeChars == {"h"}

RECURSIVE FirstIndexIn(_, _, _)
FirstIndexIn(t, set, from) ==
    IF from > Len(t) THEN 0
    ELSE IF t[from] \in set THEN from
    ELSE FirstIndexIn(t, set, from + 1)

\* urllib.parse.urlparse(url).netloc: after an optional "scheme:", a rest
\* that starts with "//" carries the netloc up to the first of / ? #
Netloc(url) ==
    LET colon == FirstIndexIn(url, {":"}, 1)
        hasScheme == /\ colon > 1
                     /\ \A k \in 1..(colon - 1) : url[k] \in SchemeChars
        rest == IF hasScheme THEN SubSeq(url, colon + 1, Len(url)) ELSE url
    IN  IF Len(rest) >= 2 /\ rest[1] = "/" /\ rest[2] = "/"
        THEN LET stop == FirstIndexIn(rest, {"/", "?", "#"}, 3)
             IN  IF stop = 0 THEN SubSeq(rest, 3, Len(rest))
                 ELSE SubSeq(rest, 3, stop - 1)
        ELSE <<>>

\* ------------------------------------------------------------- HNFetcher
\* the ranking the feed serves; topstories.json is a prefix of it
Ranking == [k \in 1..MaxFeed |-> MaxFeed + 1 - k]

\* a slice that ignores the limit
Take_All(s, n) == s

\* response.json()[:limit], for limit >= 0
Take(s, n) == SubSeq(s, 1, IF n < Len(s) THEN n ELSE Len(s))

Urls == { <<"h", ":", "/", "/", "a", "/", "p">> }

Titles == { <<"T">> }

\* item/<id>.json bodies: a story dictionary whose url and title keys may
\* each be absent
ItemBodies(id) ==
    {[id |-> id, title |-> t] : t \in Titles}
    \cup {[id |-> id, url |-> u] : u \in Urls}
    \cup {[id |-> id, url |-> u, title |-> t] : u \in Urls, t \in Titles}

\* what one item lookup can answer: a request failure, the JSON value
\* null, or a story dictionary
ItemResponses(id) ==
    {[kind |-> "error", body |-> <<>>], [kind |-> "null", body |-> <<>>]}
    \cup {[kind |-> "json", body |-> b] : b \in ItemBodies(id)}

FeedResponses ==
    {[kind |-> "error", ids |-> <<>>]}
    \cup {[kind |-> "json", ids |-> Take(Ranking, n)] : n \in 0..MaxFeed}

\* HNFetcher._fetch_story: a RequestException is logged and None returned;
\* a null body makes story.get raise AttributeError, which is not caught
FetchStoryResult(resp) ==
    IF resp.kind = "error" THEN [raised |-> FALSE, none |-> TRUE, story |-> <<>>]
    ELSE IF resp.kind = "null" THEN [raised |-> TRUE, none |-> TRUE, story |-> <<>>]
    ELSE [raised |-> FALSE, none |-> FALSE, story |-> resp.body]

\* the filter without its url test
KeepsStory_AnyStory(r) == ~r.none

\* "if story and 'url' in story"
KeepsStory(r) == ~r.none /\ "url" \in DOMAIN r.story

\* ------------------------------------------------------ ContentExtractor
PageTitles == {"absent", "no_string", "text"}

PageTitleText == <<" ", "T">>

\* the text of the content node: none, whitespace only, or a word
PageBodies == { <<>>, <<" ">>, <<"x">> }

\* a page request: it times out, answers an HTTP error status, or answers
\* a document with an optional <title> and the text of its content node
Pages ==
    {[status |-> st, title |-> "absent", body |-> <<>>] : st \in {"timeout", "http_error"}}
    \cup {[status |-> "ok", title |-> ti, body |-> b] :
              ti \in PageTitles, b \in PageBodies}

\* ContentExtractor._extract_title; soup.title.string is None for a title
\* element without a single string child, and None.strip() raises
ExtractTitle(page) ==
    IF page.title = "absent" THEN [raised |-> FALSE, title |-> NoTitleFound]
    ELSE IF page.title = "no_string" THEN [raised |-> TRUE, title |-> <<>>]
    ELSE [raised |-> FALSE, title |-> Strip(PageTitleText)]

\* ContentExtractor._extract_main_content, from the text of the chosen node
ExtractMainContent(page) == Strip(CollapseWs(Strip(page.body)))

\* an extractor that swallows a failure and answers an empty document
Extract_Swallow(url, page) ==
    IF page.status # "ok" \/ ExtractTitle(page).raised
    THEN [raised |-> FALSE,
          result |-> [url |-> url, domain |-> Netloc(url),
                      title |-> NoTitleFound, content |-> <<>>]]
    ELSE [raised |-> FALSE,
          result |-> [url |-> url,
                      domain |-> Netloc(url),
                      title |-> ExtractTitle(page).title,
                      content |-> ExtractMainContent(page)]]

\* ContentExtractor.extract: both except clauses re-raise, so every failed
\* request and every parse error leaves as an exception; the returned
\* dictionary has no access_restricted key
Extract(url, page) ==
    IF page.status # "ok" THEN [raised |-> TRUE, result |-> <<>>]
    ELSE IF ExtractTitle(page).raised THEN [raised |-> TRUE, result |-> <<>>]
    ELSE [raised |-> FALSE,
          result |-> [url |-> url,
                      domain |-> Netloc(url),
                      title |-> ExtractTitle(page).title,
                      content |-> ExtractMainContent(page)]]

\* ------------------------------------------------------------ providers
Providers == {"openai", "gemini", "anthropic", "ollama"}

\* the texts a backend answers with: whitespace only, and a word with
\* whitespace on both sides
BackendTexts == { <<" ">>, <<" ", "x", " ">> }

\* what the backend answers: a failed request, a response without the
\* text field, or a response carrying a text
BackendResponses ==
    {[kind |-> k, text |-> <<>>] : k \in {"error", "no_text"}}
    \cup {[kind |-> "text", text |-> t] : t \in BackendTexts}

\* providers that return the response text as it came
GenerateSummary_NoStrip(name, resp) ==
    IF resp.kind = "error" THEN [raised |-> TRUE, text |-> <<>>]
    ELSE IF resp.kind = "no_text"
         THEN IF name = "ollama" THEN [raised |-> FALSE, text |-> <<>>]
              ELSE [raised |-> TRUE, text |-> <<>>]
    ELSE [raised |-> FALSE, text |-> resp.text]

\* <Provider>.generate_summary: every provider re-raises a failed request
\* and returns the stripped text; a response without the text field raises
\* in OpenAI, Anthropic and Gemini, while Ollama reads it with
\* result.get("response", "") and returns the empty text
GenerateSummary(name, resp) ==
    IF resp.kind = "error" THEN [raised |-> TRUE, text |-> <<>>]
    ELSE IF resp.kind = "no_text"
         THEN IF name = "ollama" THEN [raised |-> FALSE, text |-> Strip(<<>>)]
              ELSE [raised |-> TRUE, text |-> <<>>]
    ELSE [raised |-> FALSE, text |-> Strip(resp.text)]

\* Summarizer.summarize, the dictionary it returns
SummarizeResult(story, content, summary_text) ==
    [story |-> story,
     content |-> [title |-> Get(content, "title", NoneVal),
                  url |-> Get(content, "url", NoneVal),
                  domain |-> Get(content, "domain", NoneVal),
                  content_length |-> Len(Get(content, "content", <<>>))],
     summary |-> summary_text]

\* ------------------------------------------------- Summarizer.__init__
ProviderNames == Providers \cup {"unknown"}

\* config["summarizer"]: the provider name and whether the API key of that
\* provider is set (Ollama has no key)
SummarizerConfigs ==
    {[provider |-> p, api_key |-> b] : p \in ProviderNames, b \in BOOLEAN}
    \ {[provider |-> "ollama", api_key |-> TRUE]}

\* a Summarizer that keeps the name and leaves the check to the first call
InitializeProvider_Lazy(cfg) ==
    IF cfg.provider \in {"openai", "gemini", "anthropic"} /\ ~cfg.api_key
    THEN [raised |-> TRUE, provider |-> "none"]
    ELSE [raised |-> FALSE, provider |-> cfg.provider]

\* Summarizer._initialize_provider: ValueError for a missing API key and
\* for a name that is none of the four providers
InitializeProvider(cfg) ==
    IF cfg.provider \in {"openai", "gemini", "anthropic"}
    THEN IF ~cfg.api_key THEN [raised |-> TRUE, provider |-> "none"]
         ELSE [raised |-> FALSE, provider |-> cfg.provider]
    ELSE IF cfg.provider = "ollama"
    THEN [raised |-> FALSE, provider |-> cfg.provider]
    ELSE [raised |-> TRUE, provider |-> "none"]

\* ----------------------------------------------------- DeliveryService
ChannelNames == {"email", "slack", "line"}

\* config["delivery"]["method"], as the sequence of its comma-separated
\* components: "email,slack" is <<"email", "slack">>
MethodValues ==
    { <<"email">>, <<"slack">>, <<"line">>, <<"sms">>, <<"email", "slack">> }

\* config["delivery"]: the method value and the channels whose required
\* credential (username/password/recipients, webhook_url, access_token/to)
\* is not set
DeliveryConfigs ==
    UNION {{[method |-> m, missing |-> x] :
                x \in {{}} \cup {{m[j]} : j \in DOMAIN m}} : m \in MethodValues}

\* EmailDelivery.__init__, SlackDelivery.__init__, LineDelivery.__init__:
\* ValueError when a required credential is missing
ChannelInitRaises(name, cfg) == name \in cfg.missing

\* DeliveryService._initialize_delivery_method: the whole method value is
\* compared with the three channel names, so only a value of one known
\* component constructs a channel
InitializeDeliveryMethod(cfg) ==
    IF Len(cfg.method) = 1 /\ cfg.method[1] \in ChannelNames
    THEN IF ChannelInitRaises(cfg.method[1], cfg)
         THEN [raised |-> TRUE, method |-> "none"]
         ELSE [raised |-> FALSE, method |-> cfg.method[1]]
    ELSE [raised |-> TRUE, method |-> "none"]

\* --------------------------------------------------------- EmailDelivery
UnknownTitle == <<"Unknown Title">>

\* str.replace('\n', '<br>')
ReplaceNewlines(t) == [j \in DOMAIN t |-> IF t[j] = "\n" THEN "<br>" ELSE t[j]]

\* EmailDelivery._create_text_content, the lines written for one record
EmailTextStory(k, rec) ==
    LET story == Get(rec, "story", <<>>) IN
    << <<"title", k, Get(story, "title", UnknownTitle)>>,
       <<"url", Get(story, "url", <<"No URL">>)>>,
       <<"meta", Get(story, "score", 0), Get(story, "descendants", 0)>>,
       <<"summary", Get(rec, "summary", <<"No summary available">>)>> >>

\* EmailDelivery._create_html_content, the elements of one record's
\* <div class="story">: the linked title, the meta line, the summary; the
\* record's access_restricted key is not read
EmailHtmlStory(k, rec) ==
    LET story == Get(rec, "story", <<>>) IN
    << <<"h2", k, Get(story, "url", <<"#">>), Get(story, "title", UnknownTitle)>>,
       <<"meta", Get(story, "score", 0), Get(story, "descendants", 0),
                 Get(story, "id", <<>>)>>,
       <<"summary", ReplaceNewlines(Get(rec, "summary", <<"No summary available">>))>> >>

\* whether rendering one record raises: the lookups of the story, of its
\* fields and of the summary are all .get with a default
EmailStoryRaises(rec) ==
    LET story == Lookup(rec, "story", <<>>) IN
    \/ story.raised
    \/ \E key \in {"title", "url", "score", "descendants", "id"} :
           Lookup(story.value, key, 0).raised
    \/ Lookup(rec, "summary", <<>>).raised

\* the multipart message: plain text part and HTML part over all records
EmailMessage(records) ==
    [text |-> [k \in DOMAIN records |-> EmailTextStory(k, records[k])],
     html |-> [k \in DOMAIN records |-> EmailHtmlStory(k, records[k])]]

\* EmailDelivery.send: one SMTP session; failAt = 1 is a failure of the
\* session (connect, starttls, login or send_message), caught by the
\* except clause
EmailRequests(records) == 1

EmailSend(records, failAt) ==
    IF failAt = 1 THEN [raised |-> FALSE, ok |-> FALSE, posts |-> <<>>]
    ELSE [raised |-> FALSE, ok |-> TRUE, posts |-> <<EmailMessage(records)>>]

\* --------------------------------------------------------- SlackDelivery
\* max_summaries_per_message when the configuration does not set it
DefaultMaxSummariesPerMessage == 3

\* a split that leaves out the last, shorter batch
Batches_DropsRemainder(records, k) ==
    LET m == Len(records)
        n == m \div k
    IN  [j \in 1..n |-> SubSeq(records, (j - 1) * k + 1, j * k)]

\* summaries[i:i + k] for i in range(0, len(summaries), k), k >= 1
Batches(records, k) ==
    LET m == Len(records)
        n == (m + k - 1) \div k
    IN  [j \in 1..n |->
            SubSeq(records, (j - 1) * k + 1, IF j * k < m THEN j * k ELSE m)]

\* the posts SlackDelivery.send issues: one per batch
SlackRequests(records, k) == IF k >= 1 THEN Len(Batches(records, k)) ELSE 0

\* SlackDelivery.send: range() raises ValueError for a step of 0; the post
\* number failAt fails and ends the loop; both except clauses return False
SlackSend(records, k, failAt) ==
    IF k < 1 THEN [raised |-> FALSE, ok |-> FALSE, posts |-> <<>>]
    ELSE IF failAt \in 1..Len(Batches(records, k))
    THEN [raised |-> FALSE, ok |-> FALSE,
          posts |-> SubSeq(Batches(records, k), 1, failAt - 1)]
    ELSE [raised |-> FALSE, ok |-> TRUE, posts |-> Batches(records, k)]

\* _create_message_blocks line 262: the character cap of a summary block
SlackBlockCap == 3000

\* a rendering that keeps only the first 3000 characters
SummaryBlocks_Truncates(text) ==
    << <<"section", SubSeq(text, 1, Min(SlackBlockCap, Len(text)))>> >>

\* _create_message_blocks lines 260-279: a summary longer than the cap
\* becomes the blocks of summary_text[i:i + 3000] for
\* i in range(0, len, 3000), any other summary one block
SummaryBlocks(text) ==
    IF Len(text) > SlackBlockCap
    THEN [c \in 1..((Len(text) + SlackBlockCap - 1) \div SlackBlockCap) |->
              <<"section", SubSeq(text, (c - 1) * SlackBlockCap + 1,
                                  Min(c * SlackBlockCap, Len(text)))>>]
    ELSE << <<"section", text>> >>

\* _create_message_blocks lines 236-282, the blocks of one record: the
\* linked title, the context line, the summary blocks, a divider
SlackStoryBlocks(rec) ==
    LET story == Lookup(rec, "story", <<>>)
        url == Lookup(story.value, "url", <<"#">>)
        title == Lookup(story.value, "title", UnknownTitle)
        score == Lookup(story.value, "score", 0)
        comments == Lookup(story.value, "descendants", 0)
        id == Lookup(story.value, "id", <<>>)
        text == Lookup(rec, "summary", <<"No summary available">>)
    IN  [raised |-> \/ story.raised \/ url.raised \/ title.raised
                    \/ score.raised \/ comments.raised \/ id.raised
                    \/ text.raised,
         blocks |-> << <<"title_link", url.value, title.value>>,
                       <<"context", score.value, comments.value, id.value>> >>
                    \o SummaryBlocks(text.value)
                    \o << <<"divider">> >>]

\* SlackDelivery._create_message_blocks: header, divider, then the blocks
\* of every record in order
CreateMessageBlocks(batch) ==
    [raised |-> \E k \in DOMAIN batch : SlackStoryBlocks(batch[k]).raised,
     value |-> << <<"header">>, <<"divider">> >>
               \o Flatten([k \in DOMAIN batch |-> SlackStoryBlocks(batch[k]).blocks])]

\* ---------------------------------------------------------- LineDelivery
\* the text of one record's push message
LineMessage(k, rec) ==
    LET story == Get(rec, "story", <<>>) IN
    << <<"title", k, Get(story, "title", UnknownTitle)>>,
       <<"url", Get(story, "url", <<"No URL">>)>>,
       <<"meta", Get(story, "score", 0), Get(story, "descendants", 0)>>,
       <<"summary", Get(rec, "summary", <<"No summary available">>)>> >>

\* the push requests of one send: the header, then one per record
LineMessages(records) ==
    << <<"header">> >> \o [k \in DOMAIN records |-> LineMessage(k, records[k])]

LineRequests(records) == Len(LineMessages(records))

\* a send whose header message is pushed before the try block
LineSend_HeaderOutsideTry(records, failAt) ==
    IF failAt = 1
    THEN [raised |-> TRUE, ok |-> FALSE, posts |-> <<>>]
    ELSE IF failAt \in 1..LineRequests(records)
    THEN [raised |-> FALSE, ok |-> FALSE,
          posts |-> SubSeq(LineMessages(records), 1, failAt - 1)]
    ELSE [raised |-> FALSE, ok |-> TRUE, posts |-> LineMessages(records)]

\* LineDelivery.send: the whole body is inside the try block; the push
\* number failAt raises in _send_line_message and send returns False
LineSend(records, failAt) ==
    IF failAt \in 1..LineRequests(records)
    THEN [raised |-> FALSE, ok |-> FALSE,
          posts |-> SubSeq(LineMessages(records), 1, failAt - 1)]
    ELSE [raised |-> FALSE, ok |-> TRUE, posts |-> LineMessages(records)]

\* ------------------------------------------------ DeliveryService.deliver
\* the outbound requests method.send(summaries) can issue
SendRequests(name, records) ==
    IF name = "email" THEN EmailRequests(records)
    ELSE IF name = "slack" THEN SlackRequests(records, DefaultMaxSummariesPerMessage)
    ELSE LineRequests(records)

\* self.method.send(summaries)
Send(name, records, failAt) ==
    IF name = "email" THEN EmailSend(records, failAt)
    ELSE IF name = "slack"
    THEN SlackSend(records, DefaultMaxSummariesPerMessage, failAt)
    ELSE LineSend(records, failAt)

\* a deliver that reports success whatever send returned
ServiceDeliver_AlwaysTrue(r) == TRUE

\* DeliveryService.deliver: the result of send, or False when send raised
ServiceDeliver(r) == IF r.raised THEN FALSE ELSE r.ok

\* ----------------------------------------------------------------- main
\* a fallback record without the access_restricted flag
PlaceholderRecord_NoFlag(story, domain) ==
    [story |-> story,
     content |-> [url |-> Get(story, "url", NoneVal),
                  domain |-> domain,
                  title |-> Get(story, "title", NoneVal),
                  content_length |-> 0],
     summary |-> Placeholder]

\* a fallback record that reports a length taken from the url
PlaceholderRecord_Length(story, domain) ==
    [story |-> story,
     content |-> [url |-> Get(story, "url", NoneVal),
                  domain |-> domain,
                  title |-> Get(story, "title", NoneVal),
                  content_length |-> Len(Get(story, "url", <<>>))],
     summary |-> Placeholder,
     access_restricted |-> TRUE]

\* the record main appends for an item it could not summarize
PlaceholderRecord(story, domain) ==
    [story |-> story,
     content |-> [url |-> Get(story, "url", NoneVal),
                  domain |-> domain,
                  title |-> Get(story, "title", NoneVal),
                  content_length |-> 0],
     summary |-> Placeholder,
     access_restricted |-> TRUE]

VARIABLES
    pc,            \* where the run is
    config,        \* the loaded configuration
    method,        \* DeliveryService.method, the constructed channel
    feed_kind,     \* what the topstories.json request answered
    sends,         \* the send calls made on channels, with their outcome
    deliver_result,\* what DeliveryService.deliver returned
    limit,         \* args.top
    provider,      \* the provider the Summarizer was constructed with
    story_ids,     \* fetch_top_stories: the identifiers to look up
    fidx,          \* fetch_top_stories: position in story_ids
    stories,       \* fetch_top_stories: the stories kept so far
    top_stories,   \* main: the list fetch_top_stories returned
    i,             \* main: position of the loop in top_stories
    content,       \* main: the extracted content of the current story
    summaries,     \* main: the record list
    calls,         \* the requests issued to pages and to the backend
    delivered,     \* the record lists handed to DeliveryService.deliver
    fetched,       \* the story dictionaries the item lookups answered
    exc,           \* the exception that ended the run, if any
    sl_pc,         \* SlackDelivery.send: where the call is
    sl_records,    \* SlackDelivery.send: the summaries argument
    sl_k,          \* SlackDelivery.max_summaries_per_message
    sl_batches,    \* SlackDelivery.send: the batches
    sl_next,       \* SlackDelivery.send: the batch the loop is at
    sl_log,        \* the posts made to the webhook and the sleeps
    sl_result,     \* what SlackDelivery.send returned
    ln_pc,         \* LineDelivery.send: where the call is
    ln_msgs,       \* LineDelivery.send: the length of each record's message
    ln_rec,        \* LineDelivery.send: the record the loop is at
    ln_part,       \* LineDelivery.send: the part of the message it is at
    ln_log,        \* the push requests made and the sleeps
    ln_result,     \* what LineDelivery.send returned
    rd_pc,         \* a rendering call: where it is
    rd_records,    \* a rendering call: the summaries argument
    rd_result,     \* a rendering call: what it returned
    ex_pc,         \* _extract_main_content: where the call is
    ex_doc,        \* _extract_main_content: the parsed document
    ex_result      \* _extract_main_content: the node it chose

mainVars == <<pc, config, method, feed_kind, sends, deliver_result, limit,
              provider, story_ids, fidx, stories, top_stories, i, content,
              summaries, calls, delivered, fetched, exc>>

slackVars == <<sl_pc, sl_records, sl_k, sl_batches, sl_next, sl_log, sl_result>>

lineVars == <<ln_pc, ln_msgs, ln_rec, ln_part, ln_log, ln_result>>

renderVars == <<rd_pc, rd_records, rd_result>>

selectVars == <<ex_pc, ex_doc, ex_result>>

vars == <<mainVars, slackVars, lineVars, renderVars, selectVars>>

\* no SlackDelivery.send call of its own is under way
SlackIdle ==
    /\ sl_pc = "idle"
    /\ sl_records = <<>>
    /\ sl_k = DefaultMaxSummariesPerMessage
    /\ sl_batches = <<>>
    /\ sl_next = 1
    /\ sl_log = <<>>
    /\ sl_result = "none"

\* no LineDelivery.send call of its own is under way
LineIdle ==
    /\ ln_pc = "idle"
    /\ ln_msgs = <<>>
    /\ ln_rec = 1
    /\ ln_part = 1
    /\ ln_log = <<>>
    /\ ln_result = "none"

\* no rendering call of its own is under way
RenderIdle ==
    /\ rd_pc = "idle"
    /\ rd_records = <<>>
    /\ rd_result = "none"

\* no _extract_main_content call of its own is under way
SelectIdle ==
    /\ ex_pc = "idle"
    /\ ex_doc = <<>>
    /\ ex_result = "none"

NoContent == <<>>

Init ==
    /\ pc = "startup"
    /\ config \in [summarizer : SummarizerConfigs, delivery : DeliveryConfigs]
    /\ method = "none"
    /\ feed_kind = "none"
    /\ sends = <<>>
    /\ deliver_result = "none"
    /\ limit \in 0..MaxLimit
    /\ provider = "none"
    /\ story_ids = <<>>
    /\ fidx = 1
    /\ stories = <<>>
    /\ top_stories = <<>>
    /\ i = 1
    /\ content = NoContent
    /\ summaries = <<>>
    /\ calls = <<>>
    /\ delivered = <<>>
    /\ fetched = <<>>
    /\ exc = "none"
    /\ SlackIdle
    /\ LineIdle
    /\ RenderIdle
    /\ SelectIdle

\* main's outer except logs and re-raises: the run ends with the exception
Abort(e) ==
    /\ pc' = "aborted"
    /\ exc' = e

\* main lines 51-63: the Summarizer, then the DeliveryService, is
\* constructed; a ValueError of either constructor ends the run
Startup ==
    /\ UNCHANGED <<slackVars, lineVars, renderVars, selectVars>>
    /\ pc = "startup"
    /\ LET s == InitializeProvider(config.summarizer)
           d == InitializeDeliveryMethod(config.delivery)
       IN  IF s.raised
           THEN /\ Abort("ValueError")
                /\ UNCHANGED <<provider, method>>
           ELSE /\ provider' = s.provider
                /\ IF d.raised
                   THEN /\ Abort("ValueError")
                        /\ UNCHANGED method
                   ELSE /\ method' = d.method
                        /\ pc' = "fetch_ids"
                        /\ UNCHANGED exc
    /\ UNCHANGED <<config, feed_kind, sends, deliver_result, limit, story_ids, fidx, stories,
                   top_stories, i, content, summaries, calls, delivered,
                   fetched>>

\* a fetcher that logs a failed feed request and answers no identifiers
FeedResult_Swallow(resp) ==
    IF resp.kind = "error" THEN [raised |-> FALSE, ids |-> <<>>]
    ELSE [raised |-> FALSE, ids |-> resp.ids]

\* fetch_top_stories lines 44-50 and 64-66: a failed request is logged and
\* re-raised
FeedResult(resp) ==
    IF resp.kind = "error" THEN [raised |-> TRUE, ids |-> <<>>]
    ELSE [raised |-> FALSE, ids |-> resp.ids]

\* fetch_top_stories, the request for topstories.json
FetchIds ==
    /\ UNCHANGED <<slackVars, lineVars, renderVars, selectVars>>
    /\ pc = "fetch_ids"
    /\ \E resp \in FeedResponses :
          /\ feed_kind' = resp.kind
          /\ IF FeedResult(resp).raised
             THEN /\ Abort("RequestException")
                  /\ UNCHANGED story_ids
             ELSE /\ story_ids' = Take(FeedResult(resp).ids, limit)
                  /\ pc' = "fetch_story"
                  /\ UNCHANGED exc
    /\ UNCHANGED <<sends, deliver_result, config, method, limit, provider, fidx, stories, top_stories, i, content,
                   summaries, calls, delivered, fetched>>

\* fetch_top_stories, one iteration of the loop over story_ids
FetchStory ==
    /\ UNCHANGED <<slackVars, lineVars, renderVars, selectVars>>
    /\ pc = "fetch_story"
    /\ fidx <= Len(story_ids)
    /\ \E resp \in ItemResponses(story_ids[fidx]) :
          LET r == FetchStoryResult(resp) IN
          IF r.raised
          THEN /\ Abort("AttributeError")
               /\ UNCHANGED <<stories, fidx, fetched>>
          ELSE /\ stories' = IF KeepsStory(r) THEN Append(stories, r.story)
                             ELSE stories
               /\ fetched' = IF r.none THEN fetched ELSE Append(fetched, r.story)
               /\ fidx' = fidx + 1
               /\ UNCHANGED <<pc, exc>>
    /\ UNCHANGED <<sends, deliver_result, config, method, feed_kind, limit, provider, story_ids, top_stories, i, content,
                   summaries, calls, delivered>>

\* fetch_top_stories returns and main enters its loop
FetchReturn ==
    /\ UNCHANGED <<slackVars, lineVars, renderVars, selectVars>>
    /\ pc = "fetch_story"
    /\ fidx > Len(story_ids)
    /\ top_stories' = stories
    /\ pc' = "loop"
    /\ UNCHANGED <<sends, deliver_result, config, method, feed_kind, limit, provider, story_ids, fidx, stories, i, content,
                   summaries, calls, delivered, fetched, exc>>

\* an except clause that logs the error and appends nothing
HandleItemError_Drop(story) ==
    IF "title" \in DOMAIN story
    THEN /\ i' = i + 1
         /\ pc' = "loop"
         /\ UNCHANGED <<summaries, exc>>
    ELSE /\ Abort("KeyError")
         /\ UNCHANGED <<summaries, i>>

\* an except clause that logs the error and goes through the item again
HandleItemError_Retry(story) ==
    IF "title" \in DOMAIN story
    THEN /\ pc' = "loop"
         /\ UNCHANGED <<summaries, i, exc>>
    ELSE /\ Abort("KeyError")
         /\ UNCHANGED <<summaries, i>>

\* main's inner except clause: its log line reads story['title'] before the
\* placeholder record is appended, and a KeyError raised there leaves the
\* loop
HandleItemError(story) ==
    IF "title" \in DOMAIN story
    THEN /\ summaries' = Append(summaries,
                                PlaceholderRecord(story, Netloc(Get(story, "url", <<>>))))
         /\ i' = i + 1
         /\ pc' = "loop"
         /\ UNCHANGED exc
    ELSE /\ Abort("KeyError")
         /\ UNCHANGED <<summaries, i>>

\* main.py line 78: content.get("access_restricted", False)
IsRestricted(result) == Get(result, "access_restricted", FALSE)

\* main, the first half of one loop iteration: read story['url'], extract,
\* test the access_restricted flag, read story['title'] for the log line;
\* a KeyError of these reads is raised inside the try block
ExtractStory ==
    /\ UNCHANGED <<slackVars, lineVars, renderVars, selectVars>>
    /\ pc = "loop"
    /\ i <= Len(top_stories)
    /\ LET story == top_stories[i] IN
       IF "url" \notin DOMAIN story
       THEN /\ HandleItemError(story)
            /\ UNCHANGED <<content, calls>>
       ELSE
       \E page \in Pages :
          LET r == Extract(story.url, page) IN
          /\ calls' = Append(calls, [op |-> "extract", item |-> i,
                                     kind |-> page.status, raised |-> r.raised,
                                     result |-> r.result])
          /\ IF r.raised
             THEN /\ HandleItemError(story)
                  /\ UNCHANGED content
             ELSE IF IsRestricted(r.result)
             THEN IF "title" \in DOMAIN story
                  THEN /\ summaries' = Append(summaries,
                              PlaceholderRecord(story, Get(r.result, "domain", NoneVal)))
                       /\ i' = i + 1
                       /\ UNCHANGED <<pc, exc, content>>
                  ELSE /\ HandleItemError(story)
                       /\ UNCHANGED content
             ELSE IF "title" \in DOMAIN story
                  THEN /\ content' = r.result
                       /\ pc' = "summarize"
                       /\ UNCHANGED <<summaries, i, exc>>
                  ELSE /\ HandleItemError(story)
                       /\ UNCHANGED content
    /\ UNCHANGED <<sends, deliver_result, config, method, feed_kind, limit, provider, story_ids, fidx, stories, top_stories,
                   delivered, fetched>>

\* main, the second half of one loop iteration: summarizer.summarize and
\* the append, or the except clause when the provider raised
SummarizeStory ==
    /\ UNCHANGED <<slackVars, lineVars, renderVars, selectVars>>
    /\ pc = "summarize"
    /\ LET story == top_stories[i] IN
       \E resp \in BackendResponses :
          LET g == GenerateSummary(provider, resp) IN
          /\ calls' = Append(calls, [op |-> "generate_summary", item |-> i,
                                     kind |-> resp.kind, raised |-> g.raised,
                                     sent |-> resp.text, result |-> g.text])
          /\ IF g.raised
             THEN HandleItemError(story)
             ELSE /\ summaries' = Append(summaries,
                                         SummarizeResult(story, content, g.text))
                  /\ i' = i + 1
                  /\ pc' = "loop"
                  /\ UNCHANGED exc
    /\ content' = NoContent
    /\ UNCHANGED <<sends, deliver_result, config, method, feed_kind, limit, provider, story_ids, fidx, stories, top_stories,
                   delivered, fetched>>

\* a main that calls deliver whether or not there is a record
ShouldDeliver_Always(records) == TRUE

\* main line 121: "if summaries:"
ShouldDeliver(records) == records # <<>>

\* main after the loop: deliver once when there is a record, else only
\* log; deliver's return value is not used and the run ends normally
Deliver ==
    /\ UNCHANGED <<slackVars, lineVars, renderVars, selectVars>>
    /\ pc = "loop"
    /\ i > Len(top_stories)
    /\ IF ShouldDeliver(summaries)
       THEN \E failAt \in 0..SendRequests(method, summaries) :
               LET r == Send(method, summaries, failAt) IN
               /\ delivered' = Append(delivered, summaries)
               /\ sends' = Append(sends, [channel |-> method,
                                          failAt |-> failAt,
                                          raised |-> r.raised,
                                          ok |-> r.ok,
                                          posts |-> r.posts])
               /\ deliver_result' = IF ServiceDeliver(r) THEN "true" ELSE "false"
       ELSE UNCHANGED <<delivered, sends, deliver_result>>
    /\ pc' = "done"
    /\ UNCHANGED <<config, method, feed_kind, limit, provider, story_ids, fidx,
                   stories, top_stories, i, content, summaries, calls, fetched,
                   exc>>

Next ==
    \/ Startup
    \/ FetchIds
    \/ FetchStory
    \/ FetchReturn
    \/ ExtractStory
    \/ SummarizeStory
    \/ Deliver

Spec == Init /\ [][Next]_vars

\* --------------------------------------- SlackDelivery.send, step by step
\* the records of a send, named by their position in the list
RecordList(m) == [j \in 1..m |-> j]

\* the run has not started: the values main's variables have before it
MainIdle ==
    /\ pc = "startup"
    /\ config = [summarizer |-> [provider |-> "ollama", api_key |-> FALSE],
                 delivery |-> [method |-> <<"slack">>, missing |-> {}]]
    /\ method = "none"
    /\ feed_kind = "none"
    /\ sends = <<>>
    /\ deliver_result = "none"
    /\ limit = 0
    /\ provider = "none"
    /\ story_ids = <<>>
    /\ fidx = 1
    /\ stories = <<>>
    /\ top_stories = <<>>
    /\ i = 1
    /\ content = NoContent
    /\ summaries = <<>>
    /\ calls = <<>>
    /\ delivered = <<>>
    /\ fetched = <<>>
    /\ exc = "none"

\* a SlackDelivery with a configured cap, and the list send is called with
InitSlack ==
    /\ MainIdle
    /\ LineIdle
    /\ RenderIdle
    /\ SelectIdle
    /\ sl_pc = "idle"
    /\ sl_records \in {RecordList(m) : m \in 0..MaxRecords}
    /\ sl_k \in 0..MaxCap
    /\ sl_batches = <<>>
    /\ sl_next = 1
    /\ sl_log = <<>>
    /\ sl_result = "none"

\* send lines 181-186: the batches are built; range() with a step of 0
\* raises ValueError, which the second except clause turns into False
SlackBegin ==
    /\ sl_pc = "idle"
    /\ IF sl_k < 1
       THEN /\ sl_pc' = "returned"
            /\ sl_result' = "false"
            /\ UNCHANGED sl_batches
       ELSE /\ sl_batches' = Batches(sl_records, sl_k)
            /\ sl_pc' = "posting"
            /\ UNCHANGED sl_result
    /\ UNCHANGED <<sl_records, sl_k, sl_next, sl_log>>
    /\ UNCHANGED <<mainVars, lineVars, renderVars, selectVars>>

\* a send that never sleeps
SleepsAfterPost_Never(batches) == FALSE

\* send lines 208-210: if len(batches) > 1: time.sleep(1)
SleepsAfterPost(batches) == Len(batches) > 1

\* a send that logs a failed post and goes on with the next batch
AfterFailedPost_Continue(next) ==
    [pc |-> "posting", result |-> "none", next |-> next + 1]

\* send lines 206 and 215-220: raise_for_status or the request raises, the
\* loop is left and the except clause returns False
AfterFailedPost(next) ==
    [pc |-> "returned", result |-> "false", next |-> next]

\* send lines 187-210: one batch is posted; a failed post leaves the loop
\* through an except clause, a successful one is followed by the sleep
\* when there is more than one batch
SlackPost ==
    /\ sl_pc = "posting"
    /\ sl_next <= Len(sl_batches)
    /\ \E ok \in BOOLEAN :
          IF ok
          THEN /\ sl_log' = sl_log
                     \o << [ev |-> "post", batch |-> sl_batches[sl_next]] >>
                     \o (IF SleepsAfterPost(sl_batches)
                         THEN << [ev |-> "sleep", batch |-> <<>>] >>
                         ELSE <<>>)
               /\ sl_next' = sl_next + 1
               /\ UNCHANGED <<sl_pc, sl_result>>
          ELSE /\ sl_log' = Append(sl_log,
                                   [ev |-> "failed_post", batch |-> sl_batches[sl_next]])
               /\ sl_pc' = AfterFailedPost(sl_next).pc
               /\ sl_result' = AfterFailedPost(sl_next).result
               /\ sl_next' = AfterFailedPost(sl_next).next
    /\ UNCHANGED <<sl_records, sl_k, sl_batches>>
    /\ UNCHANGED <<mainVars, lineVars, renderVars, selectVars>>

\* send lines 212-213: every batch was posted
SlackReturn ==
    /\ sl_pc = "posting"
    /\ sl_next > Len(sl_batches)
    /\ sl_pc' = "returned"
    /\ sl_result' = "true"
    /\ UNCHANGED <<sl_records, sl_k, sl_batches, sl_next, sl_log>>
    /\ UNCHANGED <<mainVars, lineVars, renderVars, selectVars>>

NextSlack ==
    \/ SlackBegin
    \/ SlackPost
    \/ SlackReturn

SpecSlack == InitSlack /\ [][NextSlack]_vars

\* ---------------------------------------- LineDelivery.send, step by step
\* LineDelivery.max_message_length
MaxMessageLength == 5000

\* the lengths of the rendered message of one record: short, at the
\* limit, just over it, and over twice the limit
LineMessageLengths == {1, 5000, 5001, 10001}

\* a send that pushes only the first part of a long message
LineParts_Truncates(n) == << [from |-> 0, to |-> Min(MaxMessageLength, n)] >>

\* send lines 334-341: the slices message[i:i + max] for
\* i in range(0, len, max) of a message longer than the limit, the whole
\* message otherwise
LineParts(n) ==
    IF n > MaxMessageLength
    THEN [c \in 1..((n + MaxMessageLength - 1) \div MaxMessageLength) |->
              [from |-> (c - 1) * MaxMessageLength,
               to |-> Min(c * MaxMessageLength, n)]]
    ELSE << [from |-> 0, to |-> n] >>

\* a LineDelivery and the list send is called with, each record given by
\* the length of its rendered message
InitLine ==
    /\ MainIdle
    /\ SlackIdle
    /\ RenderIdle
    /\ SelectIdle
    /\ ln_pc = "idle"
    /\ ln_msgs \in UNION {[1..m -> LineMessageLengths] : m \in 0..MaxLineRecords}
    /\ ln_rec = 1
    /\ ln_part = 1
    /\ ln_log = <<>>
    /\ ln_result = "none"

\* send lines 316-321: the header message is pushed, with no sleep after
\* it; a failed push is caught by the except clause, which returns False
LinePushHeader ==
    /\ ln_pc = "idle"
    /\ \E ok \in BOOLEAN :
          IF ok
          THEN /\ ln_log' = Append(ln_log, [ev |-> "push", rec |-> 0, from |-> 0, to |-> 0])
               /\ ln_pc' = "records"
               /\ UNCHANGED ln_result
          ELSE /\ ln_log' = Append(ln_log, [ev |-> "failed_push", rec |-> 0, from |-> 0, to |-> 0])
               /\ ln_pc' = "returned"
               /\ ln_result' = "false"
    /\ UNCHANGED <<ln_msgs, ln_rec, ln_part>>
    /\ UNCHANGED <<mainVars, slackVars, renderVars, selectVars>>

\* send lines 324-342: the message of one record, or one part of it, is
\* pushed and followed by time.sleep(1)
LinePushPart ==
    /\ ln_pc = "records"
    /\ ln_rec <= Len(ln_msgs)
    /\ LET parts == LineParts(ln_msgs[ln_rec])
           part == parts[ln_part]
       IN  \E ok \in BOOLEAN :
              IF ok
              THEN /\ ln_log' = ln_log
                         \o << [ev |-> "push", rec |-> ln_rec,
                                from |-> part.from, to |-> part.to],
                               [ev |-> "sleep", rec |-> ln_rec, from |-> 0, to |-> 0] >>
                   /\ IF ln_part < Len(parts)
                      THEN /\ ln_part' = ln_part + 1
                           /\ UNCHANGED ln_rec
                      ELSE /\ ln_part' = 1
                           /\ ln_rec' = ln_rec + 1
                   /\ UNCHANGED <<ln_pc, ln_result>>
              ELSE /\ ln_log' = Append(ln_log, [ev |-> "failed_push", rec |-> ln_rec,
                                                 from |-> part.from, to |-> part.to])
                   /\ ln_pc' = "returned"
                   /\ ln_result' = "false"
                   /\ UNCHANGED <<ln_rec, ln_part>>
    /\ UNCHANGED ln_msgs
    /\ UNCHANGED <<mainVars, slackVars, renderVars, selectVars>>

\* send lines 344-345: every record was pushed
LineReturn ==
    /\ ln_pc = "records"
    /\ ln_rec > Len(ln_msgs)
    /\ ln_pc' = "returned"
    /\ ln_result' = "true"
    /\ UNCHANGED <<ln_msgs, ln_rec, ln_part, ln_log>>
    /\ UNCHANGED <<mainVars, slackVars, renderVars, selectVars>>

NextLine ==
    \/ LinePushHeader
    \/ LinePushPart
    \/ LineReturn

SpecLine == InitLine /\ [][NextLine]_vars

\* ----------------------------------------------- the rendering calls
RenderChars == <<"a", "b", "c", "d", "e", "f", "\n">>

\* a text of n characters whose characters change with the position
TextOfLen(n) == [j \in 1..n |-> RenderChars[(j % 7) + 1]]

\* summaries within the cap, at the cap, just over it and over twice it
RenderSummaries == {TextOfLen(n) : n \in {1, 3000, 3001, 6001}}

\* the story entry of a record: an empty dictionary, a title only, or
\* every field the renderings read
RenderStories ==
    { <<>>,
      [title |-> <<"T">>],
      [id |-> 1, title |-> <<"T">>, url |-> <<"u">>, score |-> 5, descendants |-> 2] }

\* summary dictionaries with and without the story and summary keys
RenderRecords ==
    { <<>> }
    \cup {[summary |-> t] : t \in RenderSummaries}
    \cup {[story |-> st] : st \in RenderStories}
    \cup {[story |-> st, summary |-> t] : st \in RenderStories, t \in RenderSummaries}

RenderBatches ==
    { <<>> } \cup {<<r>> : r \in RenderRecords}
    \cup {<<r, q>> : r \in RenderRecords, q \in {<<>>, [summary |-> TextOfLen(3001)]}}

InitRender ==
    /\ MainIdle
    /\ SlackIdle
    /\ LineIdle
    /\ SelectIdle
    /\ rd_pc = "idle"
    /\ rd_records \in RenderBatches
    /\ rd_result = "none"

\* SlackDelivery._create_message_blocks(rd_records)
RenderSlackBlocks ==
    /\ rd_pc = "idle"
    /\ rd_pc' = "done"
    /\ rd_result' = [op |-> "slack_blocks",
                     raised |-> CreateMessageBlocks(rd_records).raised,
                     value |-> CreateMessageBlocks(rd_records).value]
    /\ UNCHANGED rd_records
    /\ UNCHANGED <<mainVars, slackVars, lineVars, selectVars>>

\* EmailDelivery._create_text_content(rd_records)
RenderEmailText ==
    /\ rd_pc = "idle"
    /\ rd_pc' = "done"
    /\ rd_result' = [op |-> "email_text",
                     raised |-> \E k \in DOMAIN rd_records : EmailStoryRaises(rd_records[k]),
                     value |-> EmailMessage(rd_records).text]
    /\ UNCHANGED rd_records
    /\ UNCHANGED <<mainVars, slackVars, lineVars, selectVars>>

\* EmailDelivery._create_html_content(rd_records)
RenderEmailHtml ==
    /\ rd_pc = "idle"
    /\ rd_pc' = "done"
    /\ rd_result' = [op |-> "email_html",
                     raised |-> \E k \in DOMAIN rd_records : EmailStoryRaises(rd_records[k]),
                     value |-> EmailMessage(rd_records).html]
    /\ UNCHANGED rd_records
    /\ UNCHANGED <<mainVars, slackVars, lineVars, selectVars>>

NextRender ==
    \/ RenderSlackBlocks
    \/ RenderEmailText
    \/ RenderEmailHtml

SpecRender == InitRender /\ [][NextRender]_vars

\* ------------------------------ ContentExtractor._extract_main_content
\* the tags soup([...]) finds and decomposes
UnwantedTags == {"script", "style", "nav", "header", "footer", "aside"}

\* the names the id loop and the class loop go through, in their order
IdValues == <<"content", "main", "article", "post", "entry">>

ClassValues == <<"content", "article", "post", "entry", "story">>

\* an id or class attribute: absent, a name, or a name after "main-"
ElemIds == { <<>>, <<"content">>, <<"main">>, <<"main-", "content">> }

ElemClasses == { <<>>, <<"content">>, <<"story">> }

\* the elements of a document in document order
Elems == [tag : {"div", "article", "nav"}, id : ElemIds, class : ElemClasses]

\* a parsed document: its elements, and whether it has a body element
Docs ==
    [has_body : BOOLEAN,
     elems : UNION {[1..n -> Elems] : n \in 0..MaxElems}]

\* re.compile(f"^{name}$|^main-{name}$")
MatchesName(value, name) == value = <<name>> \/ value = <<"main-", name>>

\* the elements left after the unwanted ones were decomposed
Kept(doc) == {j \in DOMAIN doc.elems : doc.elems[j].tag \notin UnwantedTags}

\* soup.find(...): the first element in document order of a set, 0 for None
FirstOf(set) == IF set = {} THEN 0 ELSE CHOOSE j \in set : \A h \in set : j <= h

FindId(doc, name) ==
    FirstOf({j \in Kept(doc) : MatchesName(doc.elems[j].id, name)})

FindClass(doc, name) ==
    FirstOf({j \in Kept(doc) : MatchesName(doc.elems[j].class, name)})

\* the id loop: it stops at the first name with a match
RECURSIVE FirstIdMatch(_, _)
FirstIdMatch(doc, names) ==
    IF names = <<>> THEN 0
    ELSE IF FindId(doc, Head(names)) # 0 THEN FindId(doc, Head(names))
    ELSE FirstIdMatch(doc, Tail(names))

\* the class loop: it stops at the first name with a match
RECURSIVE FirstClassMatch(_, _)
FirstClassMatch(doc, names) ==
    IF names = <<>> THEN 0
    ELSE IF FindClass(doc, Head(names)) # 0 THEN FindClass(doc, Head(names))
    ELSE FirstClassMatch(doc, Tail(names))

FindArticle(doc) == FirstOf({j \in Kept(doc) : doc.elems[j].tag = "article"})

\* a selection that tries the class names before the ids
SelectMainContent_ClassFirst(doc) ==
    IF FirstClassMatch(doc, ClassValues) # 0
    THEN [rule |-> "class", node |-> FirstClassMatch(doc, ClassValues)]
    ELSE IF FirstIdMatch(doc, IdValues) # 0
    THEN [rule |-> "id", node |-> FirstIdMatch(doc, IdValues)]
    ELSE IF FindArticle(doc) # 0
    THEN [rule |-> "article", node |-> FindArticle(doc)]
    ELSE IF doc.has_body THEN [rule |-> "body", node |-> 0]
    ELSE [rule |-> "document", node |-> 0]

\* _extract_main_content lines 99-131: the id loop, then the class loop,
\* then the article tag, the body, the whole document
SelectMainContent(doc) ==
    IF FirstIdMatch(doc, IdValues) # 0
    THEN [rule |-> "id", node |-> FirstIdMatch(doc, IdValues)]
    ELSE IF FirstClassMatch(doc, ClassValues) # 0
    THEN [rule |-> "class", node |-> FirstClassMatch(doc, ClassValues)]
    ELSE IF FindArticle(doc) # 0
    THEN [rule |-> "article", node |-> FindArticle(doc)]
    ELSE IF doc.has_body THEN [rule |-> "body", node |-> 0]
    ELSE [rule |-> "document", node |-> 0]

InitSelect ==
    /\ MainIdle
    /\ SlackIdle
    /\ LineIdle
    /\ RenderIdle
    /\ ex_pc = "idle"
    /\ ex_doc \in Docs
    /\ ex_result = "none"

\* _extract_main_content up to the choice of main_content
ChooseMainContent ==
    /\ ex_pc = "idle"
    /\ ex_pc' = "chosen"
    /\ ex_result' = SelectMainContent(ex_doc)
    /\ UNCHANGED ex_doc
    /\ UNCHANGED <<mainVars, slackVars, lineVars, renderVars>>

NextSelect == ChooseMainContent

SpecSelect == InitSelect /\ [][NextSelect]_vars

\* ============================================================== claims
HasUrl(s) == "url" \in DOMAIN s

Range(f) == {f[x] : x \in DOMAIN f}

CallsOf(op, k) == {n \in DOMAIN calls : calls[n].op = op /\ calls[n].item = k}

\* the page request of item k failed, or extract raised for it
ExtractionFailed(k) ==
    \E n \in CallsOf("extract", k) : calls[n].kind # "ok" \/ calls[n].raised

SummarizationFailed(k) ==
    \E n \in CallsOf("generate_summary", k) : calls[n].raised

HasFlag(rec) == "access_restricted" \in DOMAIN rec /\ rec.access_restricted

IsPlaceholderRecord(rec) ==
    /\ HasFlag(rec)
    /\ rec.summary = Placeholder
    /\ rec.content.content_length = 0

\* fetch_top_stories has returned its list to main
FetchReturned ==
    \/ pc \in {"loop", "summarize", "done"}
    \/ pc = "aborted" /\ exc = "KeyError"

LoopFinished ==
    \/ pc = "done"
    \/ pc = "loop" /\ i > Len(top_stories)

\* C1: once fetch_top_stories has returned, no step of the per-item loop in
\* which the extraction or the summarization of an item fails ends the run
\* with an exception, whatever fields the item carries.
C1_NoItemAbortsRun ==
    [][(/\ pc \in {"loop", "summarize"}
        /\ Len(calls') = Len(calls) + 1
        /\ calls'[Len(calls')].raised) => ~(pc' = "aborted")]_vars

\* C2: the records are, at every moment, the records of a prefix of the
\* fetched list in fetch order, and when the loop has finished there is
\* exactly one record per fetched item, the k-th referencing the k-th item.
C2_OneRecordPerItemInOrder ==
    /\ Len(summaries) <= Len(top_stories)
    /\ \A k \in DOMAIN summaries : summaries[k].story = top_stories[k]
    /\ LoopFinished => Len(summaries) = Len(top_stories)

C2_Witness ==
    /\ pc = "done"
    /\ Len(summaries) = 2
    /\ HasFlag(summaries[1])
    /\ ~HasFlag(summaries[2])
    /\ summaries[1].story # summaries[2].story

\* C3: the record of an item whose extraction failed or whose summarization
\* failed has access_restricted = true, the placeholder summary and
\* content_length = 0.
C3_FailedItemGetsPlaceholder ==
    \A k \in DOMAIN summaries :
        (ExtractionFailed(k) \/ SummarizationFailed(k))
            => IsPlaceholderRecord(summaries[k])

C3_Witness ==
    /\ Len(summaries) = 2
    /\ \E n \in CallsOf("extract", 1) : calls[n].kind = "timeout"
    /\ SummarizationFailed(2)

\* C4: the record of an item whose extraction and summarization both
\* succeeded reads access_restricted as false and its summary is the text
\* the backend answered with leading and trailing whitespace removed.
C4_SuccessRecordIsTrimmedText ==
    \A k \in DOMAIN summaries :
        \A n \in CallsOf("generate_summary", k) :
            ~calls[n].raised =>
                /\ ~ExtractionFailed(k)
                /\ IsRestricted(summaries[k]) = FALSE
                /\ summaries[k].summary = Strip(calls[n].sent)

C4_Witness ==
    \E k \in DOMAIN summaries :
        \E n \in CallsOf("generate_summary", k) :
            /\ calls[n].sent = <<" ">>
            /\ summaries[k].summary = <<>>

\* C5: every record of a list handed to deliver has a non-empty summary.
C5_DeliveredSummariesNonEmpty ==
    \A d \in DOMAIN delivered :
        \A k \in DOMAIN delivered[d] : delivered[d][k].summary # <<>>

\* C6: in every state, a record of the record list with access_restricted
\* = true has the placeholder as summary and content_length = 0.
C6_RestrictedIsPlaceholder ==
    \A k \in DOMAIN summaries :
        HasFlag(summaries[k]) =>
            /\ summaries[k].summary = Placeholder
            /\ summaries[k].content.content_length = 0

C6_Witness ==
    /\ pc = "done"
    /\ delivered # <<>>
    /\ \E k \in DOMAIN delivered[1] :
          /\ HasFlag(delivered[1][k])
          /\ delivered[1][k].content.domain = <<"a">>

\* C7: the provider is never called for an item whose extraction failed or
\* whose extracted content was classified access_restricted.
C7_NoSummarizationAfterFailedExtraction ==
    \A k \in DOMAIN top_stories :
        (\/ ExtractionFailed(k)
         \/ \E n \in CallsOf("extract", k) : IsRestricted(calls[n].result))
            => CallsOf("generate_summary", k) = {}

C7_Witness ==
    /\ pc = "done"
    /\ Len(top_stories) = 2
    /\ ExtractionFailed(1)
    /\ CallsOf("generate_summary", 1) = {}
    /\ CallsOf("generate_summary", 2) # {}

\* C8: extract does not raise on a failed page request: it returns a
\* content with access_restricted = true, empty text and the url's domain.
C8_ExtractReturnsRestrictedOnFailure ==
    \A n \in DOMAIN calls :
        (calls[n].op = "extract" /\ calls[n].kind \in {"timeout", "http_error"})
            => /\ ~calls[n].raised
               /\ IsRestricted(calls[n].result)
               /\ Get(calls[n].result, "content", NoneVal) = <<>>
               /\ Get(calls[n].result, "domain", NoneVal)
                      = Netloc(top_stories[calls[n].item].url)

\* C9: an item whose page was fetched but has empty text gets the
\* placeholder record and the provider is not called for it.
C9_EmptyPageIsRestricted ==
    \A k \in DOMAIN top_stories :
        \A n \in CallsOf("extract", k) :
            (/\ calls[n].kind = "ok"
             /\ ~calls[n].raised
             /\ Get(calls[n].result, "content", NoneVal) = <<>>)
                => /\ CallsOf("generate_summary", k) = {}
                   /\ k \in DOMAIN summaries => IsPlaceholderRecord(summaries[k])

\* C10: an item without a url is never extracted, summarized or recorded:
\* the list main iterates is exactly the fetched stories that carry a url,
\* in fetch order, and the loop goes through all of it.
C10_OnlyUrlItemsProcessed ==
    /\ \A k \in DOMAIN stories : HasUrl(stories[k])
    /\ FetchReturned => top_stories = SelectSeq(fetched, HasUrl)
    /\ \A n \in DOMAIN calls :
          /\ calls[n].item \in DOMAIN top_stories
          /\ HasUrl(top_stories[calls[n].item])
    /\ \A k \in DOMAIN summaries :
          /\ HasUrl(summaries[k].story)
          /\ summaries[k].story \in Range(top_stories)
    /\ LoopFinished =>
          \A k \in DOMAIN top_stories : CallsOf("extract", k) # {}

C10_Witness ==
    /\ pc = "done"
    /\ Len(fetched) = 2
    /\ ~HasUrl(fetched[1])
    /\ Len(top_stories) = 1
    /\ Len(summaries) = 1
    /\ CallsOf("extract", 1) # {}

\* the channels the delivery method value names
ConfiguredChannels == Range(config.delivery.method)

\* send was called on channel c and returned True
SendReturnedTrue(c) ==
    \E n \in DOMAIN sends :
        sends[n].channel = c /\ ~sends[n].raised /\ sends[n].ok

SendCalled(c) == \E n \in DOMAIN sends : sends[n].channel = c

\* the Summarizer was constructed and the DeliveryService constructor raised
DeliveryServiceRejected ==
    pc = "aborted" /\ exc = "ValueError" /\ provider # "none"

C12_EveryChannelIsSentTo ==
    (/\ Len(config.delivery.method) >= 2
     /\ ConfiguredChannels \subseteq ChannelNames
     /\ config.delivery.missing = {})
        => /\ ~DeliveryServiceRejected
           /\ (pc = "done" /\ summaries # <<>>) =>
                 /\ \A c \in ConfiguredChannels : SendCalled(c)
                 /\ deliver_result \in {"true", "false"}

\* C13: no send of any channel raises, and a send during which an outbound
\* request failed returned false.
C13_SendNeverRaises ==
    \A n \in DOMAIN sends :
        /\ ~sends[n].raised
        /\ sends[n].failAt # 0 => ~sends[n].ok

C13_Witness ==
    /\ sends # <<>>
    /\ sends[1].channel = "line"
    /\ sends[1].failAt = 1
    /\ ~sends[1].ok
    /\ deliver_result = "false"

\* C14: when the credential of one configured channel is missing, every
\* other configured channel is still constructed once the services are up.
C14_OtherChannelsConstructed ==
    (/\ config.delivery.missing # {}
     /\ provider # "none"
     /\ pc # "startup")
        => \A c \in (ConfiguredChannels \cap ChannelNames) \ config.delivery.missing :
               method = c

\* C16: deliver is called at most once, after the loop has gone through
\* every item and with the whole record list; a run that ends with no
\* record has not called it and ended without an exception.
C16_DeliverOnceAfterLoop ==
    /\ Len(delivered) <= 1
    /\ Len(sends) = Len(delivered)
    /\ delivered # <<>> =>
          /\ pc = "done"
          /\ i > Len(top_stories)
          /\ delivered[1] = summaries
          /\ Len(summaries) = Len(top_stories)
    /\ (pc = "done" /\ summaries = <<>>) =>
          /\ delivered = <<>>
          /\ sends = <<>>
          /\ exc = "none"

C16_Witness ==
    /\ pc = "done"
    /\ Len(delivered) = 1
    /\ Len(delivered[1]) = 2
    /\ deliver_result = "true"

\* C17: a failed request for the identifier list ends the run with the
\* exception; no page was requested, no summary generated, nothing
\* delivered.
C17_FeedFailureAborts ==
    feed_kind = "error" =>
        /\ pc = "aborted"
        /\ exc = "RequestException"
        /\ calls = <<>>
        /\ summaries = <<>>
        /\ sends = <<>>
        /\ delivered = <<>>

C17_Witness ==
    /\ feed_kind = "error"
    /\ pc = "aborted"
    /\ method = "slack"

\* C18: a run ends with an exception only when the feed request failed or
\* no record was produced.
C18_FailureOnlyWithoutRecords ==
    pc = "aborted" => (feed_kind = "error" \/ summaries = <<>>)

\* C19: a provider name that is none of the known ones ends the run at
\* construction, before any feed, page or backend request.
C19_UnknownProviderRejectedAtStartup ==
    config.summarizer.provider \notin Providers =>
        /\ pc \in {"startup", "aborted"}
        /\ pc = "aborted" => exc = "ValueError"
        /\ provider = "none"
        /\ feed_kind = "none"
        /\ calls = <<>>
        /\ sends = <<>>

C19_Witness ==
    /\ config.summarizer.provider = "unknown"
    /\ config.delivery.method = <<"email">>
    /\ config.delivery.missing = {}
    /\ pc = "aborted"
    /\ exc = "ValueError"

ElementKinds(block) == {block[j][1] : j \in DOMAIN block}

\* C20: in the email HTML, a record with access_restricted = true renders
\* as its linked title only, every other record as title, meta line and
\* summary.
C20_EmailRestrictedIsTitleOnly ==
    \A n \in DOMAIN sends :
        sends[n].channel = "email" =>
            \A p \in DOMAIN sends[n].posts :
                \A k \in DOMAIN sends[n].posts[p].html :
                    ElementKinds(sends[n].posts[p].html[k])
                        = IF HasFlag(delivered[n][k]) THEN {"h2"}
                          ELSE {"h2", "meta", "summary"}

\* the batches posted so far by the send under way, in order
PostedBatches ==
    LET posts == SelectSeq(sl_log, LAMBDA e : e.ev = "post")
    IN  [j \in DOMAIN posts |-> posts[j].batch]

\* C15: a send of m >= 1 records with cap k >= 1 that returned true made
\* ceil(m/k) posts, each but the last of k records, the last of the
\* remainder (k when k divides m), and the posts in order make up the list.
C15_SlackBatchesSplitInOrder ==
    (sl_result = "true" /\ Len(sl_records) >= 1 /\ sl_k >= 1) =>
        LET m == Len(sl_records)
            n == Len(PostedBatches)
        IN  /\ n = (m + sl_k - 1) \div sl_k
            /\ \A j \in 1..(n - 1) : Len(PostedBatches[j]) = sl_k
            /\ Len(PostedBatches[n]) = IF m % sl_k = 0 THEN sl_k ELSE m % sl_k
            /\ Flatten(PostedBatches) = sl_records

C15_Witness ==
    /\ sl_result = "true"
    /\ Len(sl_records) = 7
    /\ sl_k = 3
    /\ PostedBatches = << <<1, 2, 3>>, <<4, 5, 6>>, <<7>> >>

\* C21: no item has more than one extract call or more than one
\* generate_summary call in a run.
C21_OneAttemptPerItem ==
    \A k \in 1..Len(top_stories) :
        /\ Cardinality(CallsOf("extract", k)) <= 1
        /\ Cardinality(CallsOf("generate_summary", k)) <= 1

\* the first item failed in extraction, the second in summarization, and
\* the loop is over with one call of each kind
C21_Witness ==
    /\ LoopFinished
    /\ Len(top_stories) = 2
    /\ ExtractionFailed(1)
    /\ SummarizationFailed(2)
    /\ Len(calls) = 3

\* C29: once the identifier list has been retrieved, the run does not end
\* while item lookups remain to be made.
C29_ItemLookupFailureOnlySkips ==
    feed_kind = "json" => ~(pc = "aborted" /\ fidx <= Len(story_ids))

RECURSIVE IsSubsequence(_, _)
IsSubsequence(a, b) ==
    IF a = <<>> THEN TRUE
    ELSE IF b = <<>> THEN FALSE
    ELSE IF Head(a) = Head(b) THEN IsSubsequence(Tail(a), Tail(b))
    ELSE IsSubsequence(a, Tail(b))

IdsOf(ss) == [k \in DOMAIN ss |-> ss[k].id]

\* C30: the list fetch_top_stories builds and returns has at most limit
\* items, no identifier twice, and its identifiers are a subsequence of
\* the first limit identifiers of the ranking.
C30_ReturnedListIsSubsequence ==
    \A l \in {stories, top_stories} :
        /\ Len(l) <= limit
        /\ \A a, b \in DOMAIN l : a # b => l[a].id # l[b].id
        /\ IsSubsequence(IdsOf(l),
                         SubSeq(Ranking, 1, IF limit < MaxFeed THEN limit ELSE MaxFeed))

\* two identifiers were looked up, the first was skipped and the second kept
C30_Witness ==
    /\ FetchReturned
    /\ limit = 2
    /\ Len(story_ids) = 2
    /\ Len(top_stories) = 1
    /\ top_stories[1].id = story_ids[2]

\* the post requests the send under way has made, failed ones included
IsSlackAttempt(e) == e.ev \in {"post", "failed_post"}

SlackAttempts == SelectSeq(sl_log, IsSlackAttempt)

\* C24: in a Slack send no post request directly follows another without
\* a sleep between them, and a send that has returned after a single post
\* request has not slept.
C24_SlackDelayBetweenPosts ==
    /\ \A j \in 1..(Len(sl_log) - 1) :
          IsSlackAttempt(sl_log[j]) => sl_log[j + 1].ev = "sleep"
    /\ (sl_pc = "returned" /\ Len(SlackAttempts) = 1) =>
          \A j \in DOMAIN sl_log : sl_log[j].ev # "sleep"

\* three posts, each followed by the sleep
C24_Witness ==
    /\ sl_result = "true"
    /\ Len(sl_batches) = 3
    /\ Len(sl_log) = 6
    /\ sl_log[2].ev = "sleep"
    /\ sl_log[3].ev = "post"

\* C28: the batches posted are a prefix of the batch sequence; a failed
\* post is the last request of the send and the send returned false; a
\* send that returned true posted every batch.
C28_SlackFailureStopsSend ==
    /\ Len(PostedBatches) <= Len(sl_batches)
    /\ PostedBatches = SubSeq(sl_batches, 1, Len(PostedBatches))
    /\ \A j \in DOMAIN sl_log :
          sl_log[j].ev = "failed_post" =>
              /\ j = Len(sl_log)
              /\ sl_pc = "returned"
              /\ sl_result = "false"
    /\ sl_result = "true" => PostedBatches = sl_batches

\* of three batches the first was posted and the second failed
C28_Witness ==
    /\ sl_pc = "returned"
    /\ sl_result = "false"
    /\ Len(sl_batches) = 3
    /\ Len(PostedBatches) = 1
    /\ sl_log[Len(sl_log)].ev = "failed_post"
    /\ sl_log[Len(sl_log)].batch = sl_batches[2]

\* the push requests of the send under way that carry record r
LinePushesOf(r) == {j \in DOMAIN ln_log : ln_log[j].ev = "push" /\ ln_log[j].rec = r}

LinePushes == {j \in DOMAIN ln_log : ln_log[j].ev = "push"}

\* one push for a message within the limit, ceil(len / max) for a longer one
LineChunkCount(n) ==
    IF n <= MaxMessageLength THEN 1
    ELSE (n + MaxMessageLength - 1) \div MaxMessageLength

RECURSIVE SumOf(_)
SumOf(ns) == IF ns = <<>> THEN 0 ELSE Head(ns) + SumOf(Tail(ns))

LineChunkCounts == [r \in DOMAIN ln_msgs |-> LineChunkCount(ln_msgs[r])]

\* C22 as stated: a LINE send that returned true made, for every record,
\* one push when its message is within the limit and ceil(len / max)
\* otherwise, and the number of all its push requests is the sum of
\* these counts.
C22_LinePushesAreChunkCounts ==
    ln_result = "true" =>
        /\ \A r \in DOMAIN ln_msgs :
              Cardinality(LinePushesOf(r)) = LineChunkCounts[r]
        /\ Cardinality(LinePushes) = SumOf(LineChunkCounts)

\* C22 amended: the same per-record counts, and the number of all push
\* requests is one, for the header message, plus the sum of these counts.
C22_LinePushesAreHeaderPlusChunkCounts ==
    ln_result = "true" =>
        /\ \A r \in DOMAIN ln_msgs :
              Cardinality(LinePushesOf(r)) = LineChunkCounts[r]
        /\ Cardinality(LinePushesOf(0)) = 1
        /\ Cardinality(LinePushes) = 1 + SumOf(LineChunkCounts)

\* a short message and one of 10001 characters: 1 + 1 + 3 pushes
C22_Witness ==
    /\ ln_result = "true"
    /\ ln_msgs = <<1, 10001>>
    /\ Cardinality(LinePushes) = 5

IsLineAttempt(e) == e.ev \in {"push", "failed_push"}

\* C23: in a LINE send no push request directly follows another push
\* request without a sleep between them.
C23_LineDelayBetweenPushes ==
    \A j \in 1..(Len(ln_log) - 1) :
        IsLineAttempt(ln_log[j]) => ln_log[j + 1].ev = "sleep"

\* the position of the context block of the k-th record
ContextIndex(blocks, k) ==
    CHOOSE j \in DOMAIN blocks :
        /\ blocks[j][1] = "context"
        /\ Cardinality({h \in 1..j : blocks[h][1] = "context"}) = k

\* the first divider after position j
DividerAfter(blocks, j) ==
    CHOOSE e \in (j + 1)..Len(blocks) :
        /\ blocks[e][1] = "divider"
        /\ \A h \in (j + 1)..(e - 1) : blocks[h][1] # "divider"

\* the blocks between the k-th record's context block and its divider
SummaryChunksOf(blocks, k) ==
    LET j == ContextIndex(blocks, k)
        e == DividerAfter(blocks, j)
    IN  [c \in 1..(e - j - 1) |-> blocks[j + c]]

ChunkTexts(chunks) == [c \in DOMAIN chunks |-> chunks[c][2]]

SummaryOf(rec) == Get(rec, "summary", <<"No summary available">>)

SlackBlocksRendered == rd_pc = "done" /\ rd_result.op = "slack_blocks"

\* C25: in the Slack blocks every record's summary is rendered as adjacent
\* section blocks of at most 3000 characters, all but the last of exactly
\* 3000, whose texts in order make up the summary; a summary of at most
\* 3000 characters is one block.
C25_SlackSummaryChunks ==
    SlackBlocksRendered =>
        /\ Cardinality({j \in DOMAIN rd_result.value : rd_result.value[j][1] = "context"})
               = Len(rd_records)
        /\ \A k \in DOMAIN rd_records :
              LET chunks == SummaryChunksOf(rd_result.value, k)
                  text == SummaryOf(rd_records[k])
                  n == Len(chunks)
              IN  /\ n >= 1
                  /\ \A c \in 1..n :
                        /\ chunks[c][1] = "section"
                        /\ Len(chunks[c][2]) <= SlackBlockCap
                        /\ c < n => Len(chunks[c][2]) = SlackBlockCap
                  /\ Flatten(ChunkTexts(chunks)) = text
                  /\ Len(text) <= SlackBlockCap => n = 1

\* a summary of 6001 characters rendered as blocks of 3000, 3000 and 1
C25_Witness ==
    /\ SlackBlocksRendered
    /\ Len(rd_records) = 1
    /\ Len(SummaryOf(rd_records[1])) = 6001
    /\ Len(SummaryChunksOf(rd_result.value, 1)) = 3
    /\ Len(SummaryChunksOf(rd_result.value, 1)[3][2]) = 1

HasNoStory(rec) == Get(rec, "story", <<>>) = <<>>

IdMatchesIn(doc) ==
    {j \in Kept(doc) : \E n \in DOMAIN IdValues : MatchesName(doc.elems[j].id, IdValues[n])}

ClassMatchesIn(doc) ==
    {j \in Kept(doc) :
        \E n \in DOMAIN ClassValues : MatchesName(doc.elems[j].class, ClassValues[n])}

ArticlesIn(doc) == {j \in Kept(doc) : doc.elems[j].tag = "article"}

\* C26: the node is chosen by the id rule exactly when an id matches, by
\* the class rule exactly when no id and some class matches, by the
\* article rule when neither matches and there is an article element,
\* else it is the body, or the whole document when there is no body;
\* the chosen node matches its rule and the article is the first one.
C26_FirstMatchingRuleWins ==
    ex_pc = "chosen" =>
        LET ids == IdMatchesIn(ex_doc)
            classes == ClassMatchesIn(ex_doc)
            articles == ArticlesIn(ex_doc)
        IN  /\ ex_result.rule = "id" <=> ids # {}
            /\ ex_result.rule = "class" <=> (ids = {} /\ classes # {})
            /\ ex_result.rule = "article" <=>
                   (ids = {} /\ classes = {} /\ articles # {})
            /\ ex_result.rule = "body" <=>
                   (ids = {} /\ classes = {} /\ articles = {} /\ ex_doc.has_body)
            /\ ex_result.rule = "document" <=>
                   (ids = {} /\ classes = {} /\ articles = {} /\ ~ex_doc.has_body)
            /\ ex_result.rule = "id" => ex_result.node \in ids
            /\ ex_result.rule = "class" => ex_result.node \in classes
            /\ ex_result.rule = "article" =>
                   /\ ex_result.node \in articles
                   /\ \A j \in articles : ex_result.node <= j

\* an element with a matching class comes first in the document, one with
\* a matching id second: the second is chosen
C26_Witness ==
    /\ ex_pc = "chosen"
    /\ Len(ex_doc.elems) = 2
    /\ ex_doc.elems[1] = [tag |-> "article", id |-> <<>>, class |-> <<"content">>]
    /\ ex_doc.elems[2] = [tag |-> "div", id |-> <<"main">>, class |-> <<>>]
    /\ ex_result = [rule |-> "id", node |-> 2]

====
